---- MODULE Spec2Model ----
(***************************************************************************)
(* ShadowChat relay: presence registry, pairwise sessions, message relay,  *)
(* self-destruct timers, rate limiter and liveness monitor.                *)
(*                                                                         *)
(* The repository holds five relay programs.  Each run of the model is one *)
(* of them, fixed by the variable `variant`:                               *)
(*   "metrics"  src/server.js 1-315        (relay + /metrics counters)     *)
(*   "stable"   src/server.js 317-589      (stable relay, group approval)  *)
(*   "updated"  src/unnamed/part_000 1-404 (signal, typing, auto-join)     *)
(*   "legacy"   src/unnamed/part_000 405-576 (plain-object relay)          *)
(*   "secure"   src/unnamed/part_001       (rate limit, TTL, heartbeat)    *)
(*                                                                         *)
(* Strings are sequences of UTF-16 code units; a missing JSON field        *)
(* (undefined) is the value Undef.  Every handler is one atomic action:    *)
(* Node runs each callback to completion on a single event loop.           *)
(***************************************************************************)
EXTENDS Integers, Sequences, FiniteSets, TLC

VARIABLES
  variant,            \* which of the five programs is running
  readyState,         \* connection -> "idle" | "open" | "closing" | "closed"
  currentUserId,      \* connection -> the handler closure's currentUserId / myId
  isAlive,            \* connection -> ws.isAlive (secure relay)
  clients,            \* registry: id -> [ws, name]  (clients / users / names)
  sessions,           \* sessionId -> [aId, bId, createdAt]
  groups,             \* groupId -> [owner, members, name]
  randomUsed,         \* how many random session / group ids were generated
  rateLimits,         \* id -> [count, time]
  recentMessages,     \* set of message ids seen lately (secure relay)
  timers,             \* pending setTimeout callbacks
  now,                \* Date.now()
  sweepDue,           \* when the session-cleanup interval fires next (secure relay)
  beatDue,            \* when the heartbeat interval fires next (secure relay)
  activeConnections,  \* /metrics counter, also sent in "stats"
  totalConnections,   \* /metrics counter
  sent,               \* what the last step wrote to sockets: <<connection, payload>>
  last                \* the event the last step handled

vars == <<variant, readyState, currentUserId, isAlive, clients, sessions, groups,
          randomUsed, rateLimits, recentMessages, timers, now, sweepDue, beatDue,
          activeConnections, totalConnections, sent, last>>

\* What a message handler may write besides its sends.
handled == <<readyState, currentUserId, clients, sessions, groups, randomUsed, rateLimits,
             recentMessages, timers>>
\* What no message handler writes.
ambient == <<variant, isAlive, now, sweepDue, beatDue, activeConnections,
             totalConnections>>

(***************************************************************************)
(* Bounds of the model.                                                    *)
(***************************************************************************)
\* Pending setTimeout callbacks at any one time.
MaxTimers == 1
\* Random session / group ids generated in one run.
MaxRandom == 2

\* Connections, in the order they are accepted (each socket object is new).
ConnSeq == <<"c1", "c2", "c3">>
Conns == {ConnSeq[i] : i \in 1..Len(ConnSeq)}
NoConn == "none"

\* A missing field.  Ids, session ids, message ids and texts are sequences of
\* code units, so Undef is a sequence no string equals.
Undef == <<-1>>

\* "SC-AAAA-AAAA" and "SC-BBBB-BBBB": two ids of the client's SC-XXXX-XXXX format.
U1 == <<83, 67, 45, 65, 65, 65, 65, 45, 65, 65, 65, 65>>
U2 == <<83, 67, 45, 66, 66, 66, 66, 45, 66, 66, 66, 66>>
\* "x": an id that is not of that format.
BadId == <<120>>
Ids == {U1, U2}
\* "SC-CCCC-CCCC": the id of a bystander.
U3 == <<83, 67, 45, 67, 67, 67, 67, 45, 67, 67, 67, 67>>

\* "hi"
SomeText == <<104, 105>>
\* "User", "Anonymous", "Unknown", "Group Chat"
DefaultName == <<85, 115, 101, 114>>
AnonymousName == <<65, 110, 111, 110, 121, 109, 111, 117, 115>>
UnknownName == <<85, 110, 107, 110, 111, 119, 110>>
DefaultGroupName == <<71, 114, 111, 117, 112, 32, 67, 104, 97, 116>>
Names == {Undef}

\* A client-chosen message id, "m1".
ClientMsgId == <<109, 49>>
\* What Math.random() contributes to a generated message id: "a".
Randoms == {<<97>>}

Falsy(v) == v = Undef \/ v = <<>>

(***************************************************************************)
(* Envelopes and payloads share one record shape; a field that is absent   *)
(* holds Undef, FALSE, 0, <<>> or "".  Fields that play the same part under *)
(* several names in the code share one field here:                         *)
(*   fromId   fromId, from            toId   toId, to                      *)
(*   id       id, messageId           text   text, newText, signalData,    *)
(*   name     name, fromName,                keyData, creds                *)
(*            userName, groupName     ok     ok, isTyping                  *)
(*   count    activeConnections, memberCount                               *)
(***************************************************************************)
Blank ==
  [type |-> "", ok |-> FALSE, reason |-> "", userId |-> Undef, name |-> Undef,
   fromId |-> Undef, toId |-> Undef, peerId |-> Undef, peerName |-> Undef,
   accept |-> FALSE, sessionId |-> Undef, id |-> Undef, text |-> Undef,
   selfDestruct |-> 0, timestamp |-> 0, groupId |-> Undef, owner |-> Undef,
   members |-> <<>>, count |-> 0]

Env(type) == [Blank EXCEPT !.type = type]

Event(kind, c, env) == [ev |-> kind, conn |-> c, env |-> env]
NoEvent == Event("idle", NoConn, Blank)

(***************************************************************************)
(* Strings.                                                                *)
(***************************************************************************)
\* a < b in the order Array.prototype.sort uses by default (code units).
StrLess(a, b) ==
  \E i \in 1..Len(b) :
    /\ \A j \in 1..(i - 1) : j <= Len(a) /\ a[j] = b[j]
    /\ (i > Len(a) \/ a[i] < b[i])

\* What Array.prototype.join writes for an element.
JoinStr(v) == IF v = Undef THEN <<>> ELSE v

\* The two ids joined in the order given.
makeSessionId_Unsorted(aId, bId) == JoinStr(aId) \o <<35>> \o JoinStr(bId)

\* [aId, bId].sort().join("#"): sort puts undefined last.
makeSessionId(aId, bId) ==
  LET sorted == IF aId = Undef THEN <<bId, aId>>
                ELSE IF bId = Undef THEN <<aId, bId>>
                ELSE IF StrLess(bId, aId) THEN <<bId, aId>>
                ELSE <<aId, bId>>
  IN JoinStr(sorted[1]) \o <<35>> \o JoinStr(sorted[2])

\* /^SC-[A-Z0-9]{4}-[A-Z0-9]{4}$/.test(toId)
ChatIdFormat(s) ==
  /\ Len(s) = 12
  /\ s[1] = 83 /\ s[2] = 67 /\ s[3] = 45 /\ s[8] = 45
  /\ \A i \in {4, 5, 6, 7, 9, 10, 11, 12} : s[i] \in (65..90) \cup (48..57)

(***************************************************************************)
(* Maps.                                                                   *)
(***************************************************************************)
EmptyMap == [k \in {} |-> k]
Put(m, k, v) == [x \in DOMAIN m \cup {k} |-> IF x = k THEN v ELSE m[x]]
Del(m, k) == [x \in DOMAIN m \ {k} |-> m[x]]

\* The keys of a map as a sequence.  The order of the sends of one broadcast is
\* not observable (each goes to its own socket), so one order stands for all.
RECURSIVE SeqOfSet(_)
SeqOfSet(S) ==
  IF S = {} THEN <<>>
  ELSE LET x == CHOOSE y \in S : \A z \in S : z = y \/ StrLess(y, z)
       IN <<x>> \o SeqOfSet(S \ {x})

(***************************************************************************)
(* Sending.  A send is <<connection, payload>>; a handler's sends are a    *)
(* sequence in the order the code makes them.                              *)
(***************************************************************************)
\* safeSend / send: writes when the socket exists and is OPEN.
safeSend(ws, data) ==
  IF ws # NoConn /\ readyState[ws] = "open" THEN << <<ws, data>> >> ELSE <<>>

\* sendToUser: looks the id up when called, drops silently when the id is not
\* registered or its socket is not OPEN.
sendToUser(cl, userId, payload) ==
  IF userId \in DOMAIN cl /\ readyState[cl[userId].ws] = "open"
  THEN << <<cl[userId].ws, payload>> >>
  ELSE <<>>

RECURSIVE SendEach(_, _, _)
SendEach(cl, ids, payload) ==
  IF ids = <<>> THEN <<>>
  ELSE sendToUser(cl, Head(ids), payload) \o SendEach(cl, Tail(ids), payload)

broadcastStats(cl, active) ==
  SendEach(cl, SeqOfSet(DOMAIN cl), [Env("stats") EXCEPT !.count = active])

\* The connections a sequence of sends reached with a payload of this type.
Receivers(out, type) == {out[i][1] : i \in {j \in 1..Len(out) : out[j][2].type = type}}

(***************************************************************************)
(* Frames of a message handler.                                            *)
(***************************************************************************)
\* A path that only writes to sockets.
Sends(out) == sent' = out /\ UNCHANGED handled

\* A path that returns without doing anything.
Ignored == Sends(<<>>)

(***************************************************************************)
(* The event loop, the sockets and the clock.                              *)
(***************************************************************************)
\* One task at a time: a task starts only when the one before it has returned.
Ready == last.ev = "idle"

\* The task returns; what it wrote has left the process.
Return ==
  /\ ~Ready
  /\ last' = NoEvent
  /\ sent' = <<>>
  /\ UNCHANGED <<handled, ambient>>

\* The next socket the server accepts.
NextConn(c) ==
  /\ Ready
  /\ readyState[c] = "idle"
  /\ \A i, j \in 1..Len(ConnSeq) :
       (ConnSeq[j] = c /\ i < j) => readyState[ConnSeq[i]] # "idle"

\* The peer goes away (close frame, reset, crash noticed by TCP): the socket
\* leaves OPEN; its 'close' event is delivered later, as a task of its own.
Drop(c) ==
  /\ Ready
  /\ readyState[c] = "open"
  /\ readyState' = [readyState EXCEPT ![c] = "closing"]
  /\ sent' = <<>>
  /\ last' = Event("drop", c, Blank)
  /\ UNCHANGED <<currentUserId, clients, sessions, groups, randomUsed, rateLimits,
                 recentMessages, timers, ambient>>

\* The clock moves on to a later instant of T.
Tick(T) ==
  /\ Ready
  /\ \E t \in T : t > now /\ now' = t
  /\ sent' = <<>>
  /\ last' = Event("tick", NoConn, Blank)
  /\ UNCHANGED <<handled, variant, isAlive, sweepDue, beatDue, activeConnections,
                 totalConnections>>

\* The smallest timer handle not in use.
FreshTimer == CHOOSE n \in 1..(Cardinality(timers) + 1) : \A t \in timers : t.n # n

\* A pending setTimeout callback.  kind says which callback it is; armedAt and
\* delay are the time of the call and its delay argument; the other fields are
\* what the callback's closure captured.
Timer(kind, sid, id, a, b, delay) ==
  [n |-> FreshTimer, kind |-> kind, sessionId |-> sid, id |-> id, fromId |-> a,
   toId |-> b, armedAt |-> now, delay |-> delay]

\* setTimeout(callback, delay): the callback is pending.
Arm(t) == Cardinality(timers) < MaxTimers /\ timers' = timers \cup {t}

\* The delay Node gives a timer: one outside 1..2^31-1 becomes 1.
TimeoutDelay(delay) == IF delay < 1 \/ delay > 2147483647 THEN 1 ELSE delay

\* A pending callback may run once its delay has passed.
Due(t) == Ready /\ t \in timers /\ now >= t.armedAt + TimeoutDelay(t.delay)

TimeoutEvent(t) ==
  Event("timeout", NoConn,
        [Env(t.kind) EXCEPT !.id = t.id, !.sessionId = t.sessionId,
                            !.fromId = t.fromId, !.toId = t.toId,
                            !.timestamp = t.armedAt, !.selfDestruct = t.delay])

NameOr(name, default) == IF Falsy(name) THEN default ELSE name

\* registry.get(id)?.name || default
NameOf(cl, id, default) ==
  IF id \in DOMAIN cl THEN NameOr(cl[id].name, default) ELSE default

(***************************************************************************)
(* "metrics" relay: src/server.js 1-315.                                   *)
(* totalSessionsStarted is written on accept and read only by GET /metrics, *)
(* which is outside the relay; it is not a variable here.                  *)
(***************************************************************************)
MetricsConnection(c) ==
  /\ variant = "metrics"
  /\ NextConn(c)
  /\ readyState' = [readyState EXCEPT ![c] = "open"]
  /\ activeConnections' = activeConnections + 1
  /\ totalConnections' = totalConnections + 1
  /\ sent' = <<>>
  /\ last' = Event("connection", c, Blank)
  /\ UNCHANGED <<currentUserId, clients, sessions, groups, randomUsed, rateLimits,
                 recentMessages, timers, variant, isAlive, now, sweepDue, beatDue>>

\* A hello that keeps the binding an id already has.
MetricsHello_KeepFirst(c, env) ==
  IF Falsy(env.userId) THEN Ignored
  ELSE LET cl == IF env.userId \in DOMAIN clients THEN clients
                 ELSE Put(clients, env.userId,
                          [ws |-> c, name |-> NameOr(env.name, DefaultName)])
       IN /\ currentUserId' = [currentUserId EXCEPT ![c] = env.userId]
          /\ clients' = cl
          /\ sent' = sendToUser(cl, env.userId, [Env("hello-ack") EXCEPT !.ok = TRUE])
                     \o broadcastStats(cl, activeConnections)
          /\ UNCHANGED <<readyState, sessions, groups, randomUsed, rateLimits,
                         recentMessages, timers>>

MetricsHello(c, env) ==
  IF Falsy(env.userId) THEN Ignored
  ELSE LET cl == Put(clients, env.userId,
                     [ws |-> c, name |-> NameOr(env.name, DefaultName)])
       IN /\ currentUserId' = [currentUserId EXCEPT ![c] = env.userId]
          /\ clients' = cl
          /\ sent' = sendToUser(cl, env.userId, [Env("hello-ack") EXCEPT !.ok = TRUE])
                     \o broadcastStats(cl, activeConnections)
          /\ UNCHANGED <<readyState, sessions, groups, randomUsed, rateLimits,
                         recentMessages, timers>>

MetricsRequestChat(c, env) ==
  IF Falsy(env.fromId) \/ Falsy(env.toId) THEN Ignored
  ELSE IF ~ChatIdFormat(env.toId)
    THEN Sends(sendToUser(clients, env.fromId,
                 [Env("request-failed") EXCEPT !.reason = "Invalid Chat ID format."]))
  ELSE IF env.toId \notin DOMAIN clients
    THEN Sends(sendToUser(clients, env.fromId,
                 [Env("request-failed") EXCEPT !.reason = "Target user not online."]))
  ELSE Sends(sendToUser(clients, env.toId,
               [Env("incoming-request") EXCEPT
                  !.fromId = env.fromId,
                  !.name = NameOf(clients, env.fromId, AnonymousName)])
             \o sendToUser(clients, env.fromId,
               [Env("request-sent") EXCEPT !.toId = env.toId]))

MetricsResponseChat(c, env) ==
  IF Falsy(env.fromId) \/ Falsy(env.toId) THEN Ignored
  ELSE IF ~env.accept
    THEN Sends(sendToUser(clients, env.toId,
                 [Env("request-failed") EXCEPT !.reason = "Request rejected."]))
  ELSE LET sid == makeSessionId(env.fromId, env.toId)
       IN /\ sessions' = Put(sessions, sid,
                             [aId |-> env.fromId, bId |-> env.toId, createdAt |-> 0])
          /\ sent' = sendToUser(clients, env.fromId,
                       [Env("chat-start") EXCEPT
                          !.sessionId = sid, !.peerId = env.toId,
                          !.peerName = NameOf(clients, env.toId, DefaultName)])
                     \o sendToUser(clients, env.toId,
                       [Env("chat-start") EXCEPT
                          !.sessionId = sid, !.peerId = env.fromId,
                          !.peerName = NameOf(clients, env.fromId, DefaultName)])
          /\ UNCHANGED <<readyState, currentUserId, clients, groups, randomUsed,
                         rateLimits, recentMessages, timers>>

\* `${sessionId}:${Date.now()}:${Math.random().toString(16).slice(2)}`
MetricsMsgId(sid, r) == sid \o <<58, now, 58>> \o r

MetricsMessage(c, env) ==
  IF Falsy(env.sessionId) \/ Falsy(env.fromId) \/ env.text = Undef THEN Ignored
  ELSE IF env.sessionId \notin DOMAIN sessions THEN Ignored
  ELSE LET s == sessions[env.sessionId]
           toId == IF s.aId = env.fromId THEN s.bId ELSE s.aId
       IN IF Falsy(toId) THEN Ignored
          ELSE \E r \in Randoms :
            LET msgId == MetricsMsgId(env.sessionId, r)
                payload == [Env("message") EXCEPT
                              !.id = msgId, !.fromId = env.fromId, !.toId = toId,
                              !.text = env.text, !.selfDestruct = env.selfDestruct,
                              !.timestamp = now]
                ttl == env.selfDestruct
            IN /\ sent' = sendToUser(clients, env.fromId, payload)
                          \o sendToUser(clients, toId, payload)
               /\ IF ttl > 0 /\ ttl <= 5 * 60 * 1000
                  THEN Arm(Timer("metrics-delete", env.sessionId, msgId, env.fromId,
                                 toId, ttl))
                  ELSE timers' = timers
               /\ UNCHANGED <<readyState, currentUserId, clients, sessions, groups,
                              randomUsed, rateLimits, recentMessages>>

MetricsEditMessage(c, env) ==
  IF Falsy(env.sessionId) \/ Falsy(env.id) \/ env.text = Undef THEN Ignored
  ELSE IF env.sessionId \notin DOMAIN sessions THEN Ignored
  ELSE LET s == sessions[env.sessionId]
           payload == [Env("edit-message") EXCEPT
                         !.id = env.id, !.sessionId = env.sessionId, !.text = env.text]
       IN Sends(sendToUser(clients, s.aId, payload)
                \o sendToUser(clients, s.bId, payload))

MetricsEndSession(c, env) ==
  IF Falsy(env.sessionId) \/ env.sessionId \notin DOMAIN sessions THEN Ignored
  ELSE LET s == sessions[env.sessionId]
           payload == [Env("session-ended") EXCEPT !.sessionId = env.sessionId]
       IN /\ sessions' = Del(sessions, env.sessionId)
          /\ sent' = sendToUser(clients, s.aId, payload)
                     \o sendToUser(clients, s.bId, payload)
          /\ UNCHANGED <<readyState, currentUserId, clients, groups, randomUsed,
                         rateLimits, recentMessages, timers>>

MetricsGetStats(c, env) ==
  Sends(sendToUser(clients, currentUserId[c],
          [Env("stats") EXCEPT !.count = activeConnections]))

\* ws.on("message"): one inbound frame, handled to completion.
MetricsOnMessage(c, env) ==
  /\ variant = "metrics"
  /\ Ready
  /\ readyState[c] = "open"
  /\ last' = Event("message", c, env)
  /\ UNCHANGED ambient
  /\ IF env.type = "bad-json" THEN Ignored
     ELSE IF env.type = "hello" THEN MetricsHello(c, env)
     ELSE IF Falsy(currentUserId[c]) THEN Ignored
     ELSE IF env.type = "request-chat" THEN MetricsRequestChat(c, env)
     ELSE IF env.type = "response-chat" THEN MetricsResponseChat(c, env)
     ELSE IF env.type = "message" THEN MetricsMessage(c, env)
     ELSE IF env.type = "edit-message" THEN MetricsEditMessage(c, env)
     ELSE IF env.type = "end-session" THEN MetricsEndSession(c, env)
     ELSE IF env.type = "get-stats" THEN MetricsGetStats(c, env)
     ELSE Ignored

\* The self-destruct callback: the ids it sends to were captured when it was armed.
MetricsTimeout(t) ==
  /\ variant = "metrics"
  /\ Due(t) /\ t.kind = "metrics-delete"
  /\ timers' = timers \ {t}
  /\ LET del == [Env("delete-message") EXCEPT !.id = t.id, !.sessionId = t.sessionId]
     IN sent' = sendToUser(clients, t.fromId, del) \o sendToUser(clients, t.toId, del)
  /\ last' = TimeoutEvent(t)
  /\ UNCHANGED <<readyState, currentUserId, clients, sessions, groups, randomUsed,
                 rateLimits, recentMessages, ambient>>

\* ws.on("close").  The closure (currentUserId) dies with the socket.
MetricsClose(c) ==
  /\ variant = "metrics"
  /\ Ready
  /\ readyState[c] = "closing"
  /\ readyState' = [readyState EXCEPT ![c] = "closed"]
  /\ activeConnections' = IF activeConnections - 1 < 0 THEN 0 ELSE activeConnections - 1
  /\ LET cl == IF ~Falsy(currentUserId[c]) /\ currentUserId[c] \in DOMAIN clients
               THEN Del(clients, currentUserId[c]) ELSE clients
     IN /\ clients' = cl
        /\ sent' = broadcastStats(cl, activeConnections')
  /\ currentUserId' = [currentUserId EXCEPT ![c] = Undef]
  /\ last' = Event("close", c, [Blank EXCEPT !.userId = currentUserId[c]])
  /\ UNCHANGED <<sessions, groups, randomUsed, rateLimits, recentMessages, timers,
                 variant, isAlive, now, sweepDue, beatDue, totalConnections>>

(***************************************************************************)
(* "stable" relay (src/server.js 317-589) and "updated" relay              *)
(* (src/unnamed/part_000 1-404): registry `users`, random session ids.     *)
(***************************************************************************)
\* The k-th value Math.random() yields in a run, as the four characters the id
\* generators cut from it.  Generated ids are taken to be fresh: a run never
\* draws the same id twice.
RandomChars(k) == <<65 + k, 65 + k, 65 + k, 65 + k>>

\* "S-" + XXXX + "-" + XXXX
generateSessionId == <<83, 45>> \o RandomChars(randomUsed + 1) \o <<45>>
                     \o RandomChars(randomUsed + 1)

\* "G-" + XXXXXX
GenerateGroupId == <<71, 45>> \o RandomChars(randomUsed + 1) \o <<65, 65>>

\* A generator may be called while the run's supply of random ids lasts.
Draw == randomUsed < MaxRandom /\ randomUsed' = randomUsed + 1

\* session.users.forEach(uid => { const user = users.get(uid); if (user) safeSend(...) })
broadcastToSession(us, se, sessionId, payload) ==
  IF sessionId \notin DOMAIN se THEN <<>>
  ELSE LET s == se[sessionId]
           to(uid) == IF uid \in DOMAIN us THEN safeSend(us[uid].ws, payload) ELSE <<>>
       IN to(s.aId) \o to(s.bId)

\* members.forEach(uid => { if (uid !== fromId) { const u = users.get(uid); if (u) ... } })
RECURSIVE SendToOthers(_, _, _, _)
SendToOthers(us, members, fromId, payload) ==
  IF members = <<>> THEN <<>>
  ELSE (IF Head(members) # fromId /\ Head(members) \in DOMAIN us
        THEN safeSend(us[Head(members)].ws, payload) ELSE <<>>)
       \o SendToOthers(us, Tail(members), fromId, payload)

\* array.includes(x)
Includes(seq, x) == \E i \in 1..Len(seq) : seq[i] = x

RelayConnection(c) ==
  /\ variant \in {"stable", "updated", "legacy"}
  /\ NextConn(c)
  /\ readyState' = [readyState EXCEPT ![c] = "open"]
  /\ sent' = <<>>
  /\ last' = Event("connection", c, Blank)
  /\ UNCHANGED <<currentUserId, clients, sessions, groups, randomUsed, rateLimits,
                 recentMessages, timers, ambient>>

UpdatedHello(c, env) ==
  IF Falsy(env.userId) THEN Ignored
  ELSE /\ currentUserId' = [currentUserId EXCEPT ![c] = env.userId]
       /\ clients' = Put(clients, env.userId,
                         [ws |-> c, name |-> NameOr(env.name, DefaultName)])
       /\ sent' = safeSend(c, [Env("hello-ack") EXCEPT !.ok = TRUE])
       /\ UNCHANGED <<readyState, sessions, groups, randomUsed, rateLimits,
                      recentMessages, timers>>

UpdatedRequestChat(c, env) ==
  IF env.toId \notin DOMAIN clients
  THEN Sends(safeSend(c, [Env("request-failed") EXCEPT !.reason = "User not online"]))
  ELSE Sends(safeSend(clients[env.toId].ws,
               [Env("incoming-request") EXCEPT
                  !.fromId = env.fromId,
                  !.name = NameOf(clients, env.fromId, DefaultName)]))

\* An accept path whose second chat-start names the wrong peer.
RelayAccept_SamePeer(c, env) ==
  LET sessionId == generateSessionId
      start(me, peer) ==
        IF me \in DOMAIN clients
        THEN safeSend(clients[me].ws,
               [Env("chat-start") EXCEPT
                  !.sessionId = sessionId, !.peerId = peer,
                  !.peerName = NameOf(clients, peer, DefaultName)])
        ELSE <<>>
  IN /\ Draw
     /\ sessions' = Put(sessions, sessionId,
                        [aId |-> env.fromId, bId |-> env.toId, createdAt |-> 0])
     /\ sent' = start(env.fromId, env.toId) \o start(env.toId, env.toId)
     /\ UNCHANGED <<readyState, currentUserId, clients, groups, rateLimits,
                    recentMessages, timers>>

\* The accept path of response-chat, the same in both programs.
RelayAccept(c, env) ==
  LET sessionId == generateSessionId
      start(me, peer) ==
        IF me \in DOMAIN clients
        THEN safeSend(clients[me].ws,
               [Env("chat-start") EXCEPT
                  !.sessionId = sessionId, !.peerId = peer,
                  !.peerName = NameOf(clients, peer, DefaultName)])
        ELSE <<>>
  IN /\ Draw
     /\ sessions' = Put(sessions, sessionId,
                        [aId |-> env.fromId, bId |-> env.toId, createdAt |-> 0])
     /\ sent' = start(env.fromId, env.toId) \o start(env.toId, env.fromId)
     /\ UNCHANGED <<readyState, currentUserId, clients, groups, rateLimits,
                    recentMessages, timers>>

StableResponseChat(c, env) ==
  IF ~env.accept THEN Ignored ELSE RelayAccept(c, env)

UpdatedResponseChat(c, env) ==
  IF ~env.accept
  THEN Sends(IF env.toId \in DOMAIN clients
             THEN safeSend(clients[env.toId].ws,
                    [Env("request-rejected") EXCEPT
                       !.fromId = env.fromId,
                       !.name = NameOf(clients, env.fromId, DefaultName)])
             ELSE <<>>)
  ELSE RelayAccept(c, env)

\* signal and key-exchange: an opaque payload passed to one named destination.
UpdatedPassThrough(c, env) ==
  Sends(IF env.toId \in DOMAIN clients
        THEN safeSend(clients[env.toId].ws,
               [Env(env.type) EXCEPT !.fromId = currentUserId[c], !.text = env.text])
        ELSE <<>>)

UpdatedTyping(c, env) ==
  IF env.sessionId \notin DOMAIN sessions THEN Ignored
  ELSE Sends(broadcastToSession(clients, sessions, env.sessionId,
               [Env("typing") EXCEPT !.fromId = env.fromId, !.ok = env.ok]))

\* The id the self-destruct callback sends: payload.timestamp, a number.
TimestampId(t) == <<t>>

UpdatedMessage(c, env) ==
  IF env.sessionId \notin DOMAIN sessions THEN Ignored
  ELSE LET payload == [Env("message") EXCEPT
                         !.sessionId = env.sessionId, !.fromId = env.fromId,
                         !.text = env.text, !.timestamp = now]
       IN /\ sent' = broadcastToSession(clients, sessions, env.sessionId, payload)
          /\ IF env.selfDestruct > 0
             THEN Arm(Timer("broadcast-delete", env.sessionId,
                            TimestampId(payload.timestamp), Undef, Undef,
                            env.selfDestruct))
             ELSE timers' = timers
          /\ UNCHANGED <<readyState, currentUserId, clients, sessions, groups,
                         randomUsed, rateLimits, recentMessages>>

StableEditMessage(c, env) ==
  Sends(broadcastToSession(clients, sessions, env.sessionId,
          [Env("edit-message") EXCEPT !.id = env.id, !.text = env.text]))

UpdatedEditMessage(c, env) ==
  IF env.sessionId \notin DOMAIN sessions THEN Ignored
  ELSE Sends(broadcastToSession(clients, sessions, env.sessionId,
               [Env("edit-message") EXCEPT
                  !.id = env.id, !.fromId = env.fromId, !.text = env.text]))

UpdatedDeleteMessage(c, env) ==
  Sends(broadcastToSession(clients, sessions, env.sessionId,
          [Env("delete-message") EXCEPT !.id = env.id]))

\* An end-session that tells the participants and keeps the session.
UpdatedEndSession_Keep(c, env) ==
  Sends(broadcastToSession(clients, sessions, env.sessionId,
          [Env("session-ended") EXCEPT !.sessionId = env.sessionId]))

UpdatedEndSession(c, env) ==
  /\ sent' = broadcastToSession(clients, sessions, env.sessionId,
               [Env("session-ended") EXCEPT !.sessionId = env.sessionId])
  /\ sessions' = Del(sessions, env.sessionId)
  /\ UNCHANGED <<readyState, currentUserId, clients, groups, randomUsed, rateLimits,
                 recentMessages, timers>>

\* Members a group may hold in the model (group-approve pushes without a check).
MaxMembers == 3

StableCreateGroup(c, env) ==
  /\ groups' = Put(groups, env.groupId,
                   [owner |-> env.owner, members |-> <<env.owner>>, name |-> Undef])
  /\ sent' = <<>>
  /\ UNCHANGED <<readyState, currentUserId, clients, sessions, randomUsed, rateLimits,
                 recentMessages, timers>>

StableGroupJoinRequest(c, env) ==
  IF env.groupId \notin DOMAIN groups THEN Ignored
  ELSE IF groups[env.groupId].owner \notin DOMAIN clients THEN Ignored
  ELSE Sends(safeSend(clients[groups[env.groupId].owner].ws,
               [Env("group-join-request") EXCEPT
                  !.groupId = env.groupId, !.userId = env.userId]))

StableGroupApprove(c, env) ==
  IF env.groupId \notin DOMAIN groups THEN Ignored
  ELSE LET group == groups[env.groupId]
       IN /\ Len(group.members) < MaxMembers
          /\ groups' = [groups EXCEPT ![env.groupId].members = Append(@, env.userId)]
          /\ sent' = IF env.userId \in DOMAIN clients
                     THEN safeSend(clients[env.userId].ws,
                            [Env("group-joined") EXCEPT !.groupId = env.groupId])
                     ELSE <<>>
          /\ UNCHANGED <<readyState, currentUserId, clients, sessions, randomUsed,
                         rateLimits, recentMessages, timers>>

UpdatedCreateGroup(c, env) ==
  LET groupId == GenerateGroupId
      groupName == NameOr(env.name, DefaultGroupName)
  IN /\ Draw
     /\ groups' = Put(groups, groupId,
                      [owner |-> env.fromId, members |-> <<env.fromId>>,
                       name |-> groupName])
     /\ sent' = safeSend(c, [Env("group-created") EXCEPT
                               !.groupId = groupId, !.name = groupName])
     /\ UNCHANGED <<readyState, currentUserId, clients, sessions, rateLimits,
                    recentMessages, timers>>

\* A join that appends the identity whether or not it is a member already.
UpdatedJoinGroup_Repeat(c, env) ==
  IF env.groupId \notin DOMAIN groups
  THEN Sends(safeSend(c, [Env("error") EXCEPT !.reason = "Group not found"]))
  ELSE LET group == groups[env.groupId]
           members == Append(group.members, env.fromId)
       IN /\ Len(group.members) < MaxMembers
          /\ groups' = [groups EXCEPT ![env.groupId].members = members]
          /\ sent' = safeSend(c, [Env("group-joined") EXCEPT
                                    !.groupId = env.groupId, !.name = group.name,
                                    !.members = members])
          /\ UNCHANGED <<readyState, currentUserId, clients, sessions,
                         randomUsed, rateLimits, recentMessages, timers>>

UpdatedJoinGroup(c, env) ==
  IF env.groupId \notin DOMAIN groups
  THEN Sends(safeSend(c, [Env("error") EXCEPT !.reason = "Group not found"]))
  ELSE LET group == groups[env.groupId]
           joined(members) == [Env("group-joined") EXCEPT
                                 !.groupId = env.groupId, !.name = group.name,
                                 !.members = members]
       IN IF Includes(group.members, env.fromId)
          THEN Sends(safeSend(c, joined(group.members)))
          ELSE LET members == Append(group.members, env.fromId)
               IN /\ Len(group.members) < MaxMembers
                  /\ groups' = [groups EXCEPT ![env.groupId].members = members]
                  /\ sent' = safeSend(c, joined(members))
                             \o SendToOthers(clients, members, env.fromId,
                                  [Env("group-user-joined") EXCEPT
                                     !.groupId = env.groupId, !.userId = env.fromId,
                                     !.name = NameOf(clients, env.fromId, Undef),
                                     !.count = Len(members)])
                  /\ UNCHANGED <<readyState, currentUserId, clients, sessions,
                                 randomUsed, rateLimits, recentMessages, timers>>

UpdatedGroupMessage(c, env) ==
  IF env.groupId \notin DOMAIN groups THEN Ignored
  ELSE Sends(SendToOthers(clients, groups[env.groupId].members, env.fromId,
               [Env("group-message") EXCEPT
                  !.groupId = env.groupId, !.fromId = env.fromId,
                  !.name = NameOf(clients, env.fromId, UnknownName),
                  !.text = env.text, !.timestamp = now]))

\* ws.on("message") of the stable relay: switch (data.type).
StableOnMessage(c, env) ==
  /\ variant = "stable"
  /\ Ready
  /\ readyState[c] = "open"
  /\ last' = Event("message", c, env)
  /\ UNCHANGED ambient
  /\ CASE env.type = "bad-json" -> Ignored
       [] env.type = "hello" -> UpdatedHello(c, env)
       [] env.type = "request-chat" -> UpdatedRequestChat(c, env)
       [] env.type = "response-chat" -> StableResponseChat(c, env)
       [] env.type = "message" -> UpdatedMessage(c, env)
       [] env.type = "edit-message" -> StableEditMessage(c, env)
       [] env.type = "end-session" -> UpdatedEndSession(c, env)
       [] env.type = "create-group" -> StableCreateGroup(c, env)
       [] env.type = "group-join-request" -> StableGroupJoinRequest(c, env)
       [] env.type = "group-approve" -> StableGroupApprove(c, env)
       [] OTHER -> Ignored

\* ws.on("message") of the updated relay: switch (data.type).
UpdatedOnMessage(c, env) ==
  /\ variant = "updated"
  /\ Ready
  /\ readyState[c] = "open"
  /\ last' = Event("message", c, env)
  /\ UNCHANGED ambient
  /\ CASE env.type = "bad-json" -> Ignored
       [] env.type = "hello" -> UpdatedHello(c, env)
       [] env.type = "request-chat" -> UpdatedRequestChat(c, env)
       [] env.type = "response-chat" -> UpdatedResponseChat(c, env)
       [] env.type \in {"signal", "key-exchange"} -> UpdatedPassThrough(c, env)
       [] env.type = "typing" -> UpdatedTyping(c, env)
       [] env.type = "message" -> UpdatedMessage(c, env)
       [] env.type = "edit-message" -> UpdatedEditMessage(c, env)
       [] env.type = "delete-message" -> UpdatedDeleteMessage(c, env)
       [] env.type = "end-session" -> UpdatedEndSession(c, env)
       [] env.type = "create-group" -> UpdatedCreateGroup(c, env)
       [] env.type = "join-group" -> UpdatedJoinGroup(c, env)
       [] env.type = "group-message" -> UpdatedGroupMessage(c, env)
       [] OTHER -> Ignored

\* The self-destruct callback of both programs: broadcastToSession looks the
\* session up when the callback runs.
UpdatedTimeout(t) ==
  /\ variant \in {"stable", "updated"}
  /\ Due(t) /\ t.kind = "broadcast-delete"
  /\ timers' = timers \ {t}
  /\ sent' = broadcastToSession(clients, sessions, t.sessionId,
               [Env("delete-message") EXCEPT !.id = t.id])
  /\ last' = TimeoutEvent(t)
  /\ UNCHANGED <<readyState, currentUserId, clients, sessions, groups, randomUsed,
                 rateLimits, recentMessages, ambient>>

\* users.delete(id), then every session that names id is told and deleted.
\* The sessions are visited in turn; each broadcast sees the sessions that the
\* loop has not deleted yet, and only its own session matters to it.
RECURSIVE EndSessionsOf(_, _, _, _)
EndSessionsOf(us, se, sids, id) ==
  IF sids = <<>> THEN <<>>
  ELSE LET sid == Head(sids)
       IN (IF se[sid].aId = id \/ se[sid].bId = id
           THEN broadcastToSession(us, se, sid,
                  [Env("session-ended") EXCEPT !.sessionId = sid])
           ELSE <<>>)
          \o EndSessionsOf(us, se, Tail(sids), id)

SessionsWithout(se, id) ==
  [sid \in {x \in DOMAIN se : se[x].aId # id /\ se[x].bId # id} |-> se[sid]]

\* The cleanup both close handlers share.
CloseCleanup(c) ==
  LET id == currentUserId[c]
      us == Del(clients, id)
  IN /\ clients' = us
     /\ sessions' = SessionsWithout(sessions, id)
     /\ sent' = EndSessionsOf(us, sessions, SeqOfSet(DOMAIN sessions), id)

CloseFrame(c) ==
  /\ Ready
  /\ readyState[c] = "closing"
  /\ readyState' = [readyState EXCEPT ![c] = "closed"]
  /\ currentUserId' = [currentUserId EXCEPT ![c] = Undef]
  /\ last' = Event("close", c, [Blank EXCEPT !.userId = currentUserId[c]])
  /\ UNCHANGED <<groups, randomUsed, rateLimits, recentMessages, timers, ambient>>

\* ws.on("close") of the stable relay.
StableClose(c) ==
  /\ variant = "stable"
  /\ CloseFrame(c)
  /\ IF ~Falsy(currentUserId[c]) THEN CloseCleanup(c)
     ELSE sent' = <<>> /\ UNCHANGED <<clients, sessions>>

\* ws.on("close") of the updated relay: only the socket the registry holds
\* for the id unregisters it.
UpdatedClose(c) ==
  /\ variant = "updated"
  /\ CloseFrame(c)
  /\ IF /\ ~Falsy(currentUserId[c])
        /\ currentUserId[c] \in DOMAIN clients
        /\ clients[currentUserId[c]].ws = c
     THEN CloseCleanup(c)
     ELSE sent' = <<>> /\ UNCHANGED <<clients, sessions>>

(***************************************************************************)
(* "legacy" relay: src/unnamed/part_000 405-576.  clients, names and       *)
(* sessions are plain objects: a key is the string form of what indexes it. *)
(***************************************************************************)
\* String(undefined) as a property key: "undefined".
PropertyKey(v) ==
  IF v = Undef THEN <<117, 110, 100, 101, 102, 105, 110, 101, 100>> ELSE v

\* !!clients[id]
validateID(id) == PropertyKey(id) \in DOMAIN clients

\* send(clients[id], data)
send(cl, id, data) ==
  IF PropertyKey(id) \in DOMAIN cl THEN safeSend(cl[PropertyKey(id)].ws, data) ELSE <<>>

\* "S-" + XXXX + "-" + XXXX
genSessionId == <<83, 45>> \o RandomChars(randomUsed + 1) \o <<45>>
                \o RandomChars(randomUsed + 1)

LegacyHello(c, env) ==
  /\ currentUserId' = [currentUserId EXCEPT ![c] = env.userId]
  /\ clients' = Put(clients, PropertyKey(env.userId),
                    [ws |-> c, name |-> NameOr(env.name, DefaultName)])
  /\ sent' = <<>>
  /\ UNCHANGED <<readyState, sessions, groups, randomUsed, rateLimits, recentMessages,
                 timers>>

LegacyRequestChat(c, env) ==
  IF ~validateID(env.toId)
  THEN Sends(safeSend(c, [Env("request-failed") EXCEPT
                            !.reason = "User offline or Chat ID not valid."]))
  ELSE Sends(send(clients, env.toId,
               [Env("incoming-request") EXCEPT
                  !.fromId = env.fromId,
                  !.name = NameOf(clients, PropertyKey(env.fromId), DefaultName)]))

LegacyResponseChat(c, env) ==
  IF ~validateID(env.toId) THEN Ignored
  ELSE IF ~env.accept
    THEN Sends(send(clients, env.toId,
                 [Env("request-failed") EXCEPT !.reason = "Request rejected by user."]))
  ELSE LET sId == genSessionId
       IN /\ Draw
          /\ sessions' = Put(sessions, sId,
                             [aId |-> env.fromId, bId |-> env.toId, createdAt |-> 0])
          /\ sent' = send(clients, env.fromId,
                       [Env("chat-start") EXCEPT
                          !.sessionId = sId, !.peerId = env.toId,
                          !.peerName = NameOf(clients, PropertyKey(env.toId),
                                              DefaultName)])
                     \o send(clients, env.toId,
                       [Env("chat-start") EXCEPT
                          !.sessionId = sId, !.peerId = env.fromId,
                          !.peerName = NameOf(clients, PropertyKey(env.fromId),
                                              DefaultName)])
          /\ UNCHANGED <<readyState, currentUserId, clients, groups, rateLimits,
                         recentMessages, timers>>

\* "M-" + Math.random().toString(36).substr(2, 8)
LegacyMsgId(r) == <<77, 45>> \o r

LegacyMessage(c, env) ==
  IF env.sessionId \notin DOMAIN sessions THEN Ignored
  ELSE \E r \in Randoms :
    LET s == sessions[env.sessionId]
        msgObj == [Env("message") EXCEPT
                     !.id = LegacyMsgId(r), !.fromId = env.fromId, !.text = env.text,
                     !.timestamp = now]
    IN /\ sent' = send(clients, s.aId, msgObj) \o send(clients, s.bId, msgObj)
       /\ IF env.selfDestruct > 0
          THEN Arm(Timer("legacy-delete", env.sessionId, msgObj.id, s.aId, s.bId,
                         env.selfDestruct))
          ELSE timers' = timers
       /\ UNCHANGED <<readyState, currentUserId, clients, sessions, groups, randomUsed,
                      rateLimits, recentMessages>>

LegacyEditMessage(c, env) ==
  IF env.sessionId \notin DOMAIN sessions THEN Ignored
  ELSE LET s == sessions[env.sessionId]
           payload == [Env("edit-message") EXCEPT !.id = env.id, !.text = env.text]
       IN Sends(send(clients, s.aId, payload) \o send(clients, s.bId, payload))

LegacyEndSession(c, env) ==
  IF env.sessionId \notin DOMAIN sessions THEN Ignored
  ELSE LET s == sessions[env.sessionId]
       IN /\ sent' = send(clients, s.aId, Env("session-ended"))
                     \o send(clients, s.bId, Env("session-ended"))
          /\ sessions' = Del(sessions, env.sessionId)
          /\ UNCHANGED <<readyState, currentUserId, clients, groups, randomUsed,
                         rateLimits, recentMessages, timers>>

\* ws.on("message") of the legacy relay.
LegacyOnMessage(c, env) ==
  /\ variant = "legacy"
  /\ Ready
  /\ readyState[c] = "open"
  /\ last' = Event("message", c, env)
  /\ UNCHANGED ambient
  /\ CASE env.type = "bad-json" -> Ignored
       [] env.type = "hello" -> LegacyHello(c, env)
       [] env.type = "request-chat" -> LegacyRequestChat(c, env)
       [] env.type = "response-chat" -> LegacyResponseChat(c, env)
       [] env.type = "message" -> LegacyMessage(c, env)
       [] env.type = "edit-message" -> LegacyEditMessage(c, env)
       [] env.type = "end-session" -> LegacyEndSession(c, env)
       [] OTHER -> Ignored

\* The self-destruct callback: it holds the session object it was armed with
\* and reads clients when it runs.
LegacyTimeout(t) ==
  /\ variant = "legacy"
  /\ Due(t) /\ t.kind = "legacy-delete"
  /\ timers' = timers \ {t}
  /\ LET del == [Env("delete-message") EXCEPT !.id = t.id]
     IN sent' = send(clients, t.fromId, del) \o send(clients, t.toId, del)
  /\ last' = TimeoutEvent(t)
  /\ UNCHANGED <<readyState, currentUserId, clients, sessions, groups, randomUsed,
                 rateLimits, recentMessages, ambient>>

\* ws.on("close") of the legacy relay.
LegacyClose(c) ==
  /\ variant = "legacy"
  /\ CloseFrame(c)
  /\ clients' = IF ~Falsy(currentUserId[c]) THEN Del(clients, currentUserId[c])
                ELSE clients
  /\ sent' = <<>>
  /\ UNCHANGED sessions

(***************************************************************************)
(* "secure" relay: src/unnamed/part_001.  ALLOWED_ORIGIN is unset (its     *)
(* default), so every connection is admitted.                              *)
(***************************************************************************)
SESSION_TTL == 30 * 60 * 1000
SweepInterval == 60 * 1000
HeartbeatInterval == 30 * 1000
DedupeDelay == 60 * 1000

\* A limiter whose window never ends.
rateLimitCheck_NoReset(userId) ==
  LET limit == IF userId \in DOMAIN rateLimits THEN rateLimits[userId]
               ELSE [count |-> 0, time |-> now]
  IN IF limit.count > 40
     THEN [admit |-> FALSE, limits |-> rateLimits]
     ELSE [admit |-> TRUE,
           limits |-> Put(rateLimits, userId,
                          [count |-> limit.count + 1, time |-> limit.time])]

\* rateLimitCheck(userId): whether the envelope is admitted, and the buckets
\* the call leaves.
rateLimitCheck(userId) ==
  LET limit == IF userId \in DOMAIN rateLimits THEN rateLimits[userId]
               ELSE [count |-> 0, time |-> now]
  IN IF now - limit.time > 5000
     THEN [admit |-> TRUE,
           limits |-> Put(rateLimits, userId, [count |-> 1, time |-> now])]
     ELSE IF limit.count > 40
     THEN [admit |-> FALSE, limits |-> rateLimits]
     ELSE [admit |-> TRUE,
           limits |-> Put(rateLimits, userId,
                          [count |-> limit.count + 1, time |-> limit.time])]

SecureConnection(c) ==
  /\ variant = "secure"
  /\ NextConn(c)
  /\ readyState' = [readyState EXCEPT ![c] = "open"]
  /\ isAlive' = [isAlive EXCEPT ![c] = TRUE]
  /\ sent' = <<>>
  /\ last' = Event("connection", c, Blank)
  /\ UNCHANGED <<currentUserId, clients, sessions, groups, randomUsed, rateLimits,
                 recentMessages, timers, variant, now, sweepDue, beatDue,
                 activeConnections, totalConnections>>

\* ws.on("pong")
SecurePong(c) ==
  /\ variant = "secure"
  /\ Ready
  /\ readyState[c] = "open"
  /\ isAlive' = [isAlive EXCEPT ![c] = TRUE]
  /\ sent' = <<>>
  /\ last' = Event("pong", c, Blank)
  /\ UNCHANGED <<handled, variant, now, sweepDue, beatDue, activeConnections,
                 totalConnections>>

\* currentUserId is assigned before it is tested.
SecureHello(c, env) ==
  /\ currentUserId' = [currentUserId EXCEPT ![c] = env.userId]
  /\ IF Falsy(env.userId)
     THEN /\ sent' = <<>>
          /\ UNCHANGED <<readyState, clients, sessions, groups, randomUsed, rateLimits,
                         recentMessages, timers>>
     ELSE LET cl == Put(clients, env.userId, [ws |-> c, name |-> Undef])
          IN /\ clients' = cl
             /\ sent' = sendToUser(cl, env.userId, [Env("hello-ack") EXCEPT !.ok = TRUE])
             /\ UNCHANGED <<readyState, sessions, groups, randomUsed, rateLimits,
                            recentMessages, timers>>

\* The handlers behind the rate-limit gate leave rateLimits to the gate.
SecureSends(out) ==
  /\ sent' = out
  /\ UNCHANGED <<readyState, currentUserId, clients, sessions, groups, randomUsed,
                 recentMessages, timers>>

SecureRequestChat(c, env) ==
  IF env.toId \notin DOMAIN clients THEN SecureSends(<<>>)
  ELSE SecureSends(sendToUser(clients, env.toId,
                     [Env("incoming-request") EXCEPT !.fromId = env.fromId]))

SecureResponseChat(c, env) ==
  IF ~env.accept THEN SecureSends(<<>>)
  ELSE LET sid == makeSessionId(env.fromId, env.toId)
       IN /\ sessions' = Put(sessions, sid,
                             [aId |-> env.fromId, bId |-> env.toId, createdAt |-> now])
          /\ sent' = sendToUser(clients, env.fromId,
                       [Env("chat-start") EXCEPT !.sessionId = sid, !.peerId = env.toId])
                     \o sendToUser(clients, env.toId,
                       [Env("chat-start") EXCEPT !.sessionId = sid,
                                                 !.peerId = env.fromId])
          /\ UNCHANGED <<readyState, currentUserId, clients, groups, randomUsed,
                         recentMessages, timers>>

\* The envelope itself is what the peer is sent.
SecureMessage(c, env) ==
  IF env.sessionId \notin DOMAIN sessions THEN SecureSends(<<>>)
  ELSE IF env.id \in recentMessages THEN SecureSends(<<>>)
  ELSE LET s == sessions[env.sessionId]
           target == IF currentUserId[c] = s.aId THEN s.bId ELSE s.aId
       IN /\ recentMessages' = recentMessages \cup {env.id}
          /\ Arm(Timer("dedupe", Undef, env.id, Undef, Undef, DedupeDelay))
          /\ sent' = sendToUser(clients, target, env)
          /\ UNCHANGED <<readyState, currentUserId, clients, sessions, groups,
                         randomUsed>>

\* generateTurnCredentials(): the username is the expiry time; the HMAC is not
\* modelled.
SecureGetTurn(c, env) ==
  SecureSends(sendToUser(clients, currentUserId[c],
                [Env("turn-credentials") EXCEPT !.timestamp = (now \div 1000) + 3600]))

\* A denial that only drops the envelope.
SecureDenied_Drop(c) == Ignored

\* The gate denies: ws.terminate(); return.
SecureDenied(c) ==
  /\ readyState' = [readyState EXCEPT ![c] = "closing"]
  /\ sent' = <<>>
  /\ UNCHANGED <<currentUserId, clients, sessions, groups, randomUsed, rateLimits,
                 recentMessages, timers>>

\* An unhandled type answered with an error envelope.
SecureUnhandled_Reply(c, env) == SecureSends(safeSend(c, Env("error")))

\* No branch matches the type: the handler runs off its end.
SecureUnhandled(c, env) == SecureSends(<<>>)

\* ws.on("message") of the secure relay.
SecureOnMessage(c, env) ==
  /\ variant = "secure"
  /\ Ready
  /\ readyState[c] = "open"
  /\ last' = Event("message", c, env)
  /\ UNCHANGED ambient
  /\ IF env.type \in {"oversize", "bad-json", ""}
     THEN Ignored
     ELSE IF env.type = "hello" THEN SecureHello(c, env)
     ELSE IF Falsy(currentUserId[c]) THEN Ignored
     ELSE LET gate == rateLimitCheck(currentUserId[c])
          IN IF ~gate.admit
             THEN SecureDenied(c)
             ELSE /\ rateLimits' = gate.limits
                  /\ IF env.type = "request-chat" THEN SecureRequestChat(c, env)
                     ELSE IF env.type = "response-chat" THEN SecureResponseChat(c, env)
                     ELSE IF env.type = "message" THEN SecureMessage(c, env)
                     ELSE IF env.type = "get-turn" THEN SecureGetTurn(c, env)
                     ELSE SecureUnhandled(c, env)

\* setTimeout(() => recentMessages.delete(data.id), 60000)
SecureForget(t) ==
  /\ variant = "secure"
  /\ Due(t) /\ t.kind = "dedupe"
  /\ timers' = timers \ {t}
  /\ recentMessages' = recentMessages \ {t.id}
  /\ sent' = <<>>
  /\ last' = TimeoutEvent(t)
  /\ UNCHANGED <<readyState, currentUserId, clients, sessions, groups, randomUsed,
                 rateLimits, ambient>>

\* ws.on("close") of the secure relay.
SecureClose(c) ==
  /\ variant = "secure"
  /\ CloseFrame(c)
  /\ clients' = IF ~Falsy(currentUserId[c]) THEN Del(clients, currentUserId[c])
                ELSE clients
  /\ sent' = <<>>
  /\ UNCHANGED sessions

\* The session-cleanup interval.
SecureSweep ==
  /\ variant = "secure"
  /\ Ready
  /\ now >= sweepDue
  /\ sweepDue' = now + SweepInterval
  /\ sessions' = [sid \in {x \in DOMAIN sessions :
                            ~(now - sessions[x].createdAt > SESSION_TTL)}
                  |-> sessions[sid]]
  /\ sent' = <<>>
  /\ last' = Event("sweep", NoConn, Blank)
  /\ UNCHANGED <<readyState, currentUserId, clients, groups, randomUsed, rateLimits,
                 recentMessages, timers, variant, isAlive, now, beatDue,
                 activeConnections, totalConnections>>

\* wss.clients: the sockets whose 'close' event has not been delivered.
WssClients == {c \in Conns : readyState[c] \in {"open", "closing"}}

\* ws.ping() on each socket the heartbeat found alive; only an OPEN socket
\* carries it.
RECURSIVE Pings(_)
Pings(cs) ==
  IF cs = <<>> THEN <<>>
  ELSE (IF Head(cs) \in WssClients /\ isAlive[Head(cs)]
        THEN safeSend(Head(cs), Env("ping")) ELSE <<>>)
       \o Pings(Tail(cs))

\* A heartbeat that probes but never terminates a silent socket.
SecureHeartbeat_KeepSilent ==
  /\ variant = "secure"
  /\ Ready
  /\ now >= beatDue
  /\ beatDue' = now + HeartbeatInterval
  /\ isAlive' = [c \in Conns |-> IF c \in WssClients THEN FALSE ELSE isAlive[c]]
  /\ sent' = Pings(ConnSeq)
  /\ last' = Event("heartbeat", NoConn, Blank)
  /\ UNCHANGED <<readyState, currentUserId, clients, sessions, groups, randomUsed,
                 rateLimits, recentMessages, timers, variant, now, sweepDue,
                 activeConnections, totalConnections>>

\* The heartbeat interval.
SecureHeartbeat ==
  /\ variant = "secure"
  /\ Ready
  /\ now >= beatDue
  /\ beatDue' = now + HeartbeatInterval
  /\ readyState' = [c \in Conns |->
                      IF c \in WssClients /\ ~isAlive[c] THEN "closing"
                      ELSE readyState[c]]
  /\ isAlive' = [c \in Conns |-> IF c \in WssClients THEN FALSE ELSE isAlive[c]]
  /\ sent' = Pings(ConnSeq)
  /\ last' = Event("heartbeat", NoConn, Blank)
  /\ UNCHANGED <<currentUserId, clients, sessions, groups, randomUsed, rateLimits,
                 recentMessages, timers, variant, now, sweepDue, activeConnections,
                 totalConnections>>

(***************************************************************************)
(* Initial state: the process has just started.                            *)
(***************************************************************************)
InitOf(V) ==
  /\ variant \in V
  /\ readyState = [c \in Conns |-> "idle"]
  /\ currentUserId = [c \in Conns |-> Undef]
  /\ isAlive = [c \in Conns |-> FALSE]
  /\ clients = EmptyMap
  /\ sessions = EmptyMap
  /\ groups = EmptyMap
  /\ randomUsed = 0
  /\ rateLimits = EmptyMap
  /\ recentMessages = {}
  /\ timers = {}
  /\ now = 0
  /\ sweepDue = SweepInterval
  /\ beatDue = HeartbeatInterval
  /\ activeConnections = 0
  /\ totalConnections = 0
  /\ sent = <<>>
  /\ last = NoEvent

Variants == {"metrics", "stable", "updated", "legacy", "secure"}

(***************************************************************************)
(* Inbound envelopes.                                                      *)
(***************************************************************************)
Hello(u) == [Env("hello") EXCEPT !.userId = u]
ResponseChat(a, b, accept) ==
  [Env("response-chat") EXCEPT !.fromId = a, !.toId = b, !.accept = accept]
\* A type no relay knows.
Unknown == Env("bogus")

\* Sockets, pending callbacks and the rest of the event loop, whatever the
\* envelopes are.
Accept(C) ==
  \E c \in C : MetricsConnection(c) \/ RelayConnection(c) \/ SecureConnection(c)

Closed(C) ==
  \E c \in C : \/ MetricsClose(c) \/ StableClose(c) \/ UpdatedClose(c)
               \/ LegacyClose(c) \/ SecureClose(c)

Dropped(C) == \E c \in C : Drop(c)

(***************************************************************************)
(* Spec: presence and pairwise sessions, all five relays, two sockets.     *)
(***************************************************************************)
\* Envelopes one identity may send through the rate-limit gate in one run.
MaxCount == 2

TwoConns == {"c1", "c2"}

CoreEnvelopes ==
  {Hello(u) : u \in Ids}
  \cup {ResponseChat(a, b, TRUE) : a \in Ids, b \in Ids}
  \cup {Unknown}

Budget(c) ==
  currentUserId[c] \in DOMAIN rateLimits => rateLimits[currentUserId[c]].count < MaxCount

Init == InitOf(Variants)

Receive(C, E) ==
  \E c \in C, env \in E :
    \/ MetricsOnMessage(c, env)
    \/ StableOnMessage(c, env)
    \/ UpdatedOnMessage(c, env)
    \/ LegacyOnMessage(c, env)
    \/ (Budget(c) /\ SecureOnMessage(c, env))

Next ==
  \/ Accept(TwoConns)
  \/ Receive(TwoConns, CoreEnvelopes)
  \/ Dropped(TwoConns)
  \/ Closed(TwoConns)
  \/ Return

Spec == Init /\ [][Next]_vars

(***************************************************************************)
(* SpecTimers: self-destructing messages in the four relays that have them. *)
(***************************************************************************)
Message(sid, from, selfDestruct) ==
  [Env("message") EXCEPT !.sessionId = sid, !.fromId = from, !.text = SomeText,
                         !.selfDestruct = selfDestruct]
EndSession(sid) == [Env("end-session") EXCEPT !.sessionId = sid]

\* The self-destruct delay a client asks for, in ms.
SelfDestruct == 1000

\* A client names the sessions it was told of.
TimerEnvelopes ==
  {Hello(u) : u \in Ids}
  \cup {ResponseChat(U1, U2, TRUE)}
  \cup {Message(sid, U1, SelfDestruct) : sid \in DOMAIN sessions}
  \cup {EndSession(sid) : sid \in DOMAIN sessions}

NextTimers ==
  \/ \E c \in TwoConns : MetricsConnection(c) \/ RelayConnection(c)
  \/ \E c \in TwoConns, env \in TimerEnvelopes :
       \/ MetricsOnMessage(c, env)
       \/ StableOnMessage(c, env)
       \/ UpdatedOnMessage(c, env)
       \/ LegacyOnMessage(c, env)
  \/ \E t \in timers : MetricsTimeout(t) \/ UpdatedTimeout(t) \/ LegacyTimeout(t)
  \/ \E c \in TwoConns : Drop(c)
  \/ \E c \in TwoConns : \/ MetricsClose(c) \/ StableClose(c) \/ UpdatedClose(c)
                         \/ LegacyClose(c)
  \/ Tick({0, SelfDestruct - 1, SelfDestruct})
  \/ Return

SpecTimers == InitOf(Variants \ {"secure"}) /\ [][NextTimers]_vars

(***************************************************************************)
(* SpecSweep: session expiry in the secure relay.                          *)
(***************************************************************************)

SweepEnvelopes ==
  {Hello(u) : u \in Ids} \cup {ResponseChat(U1, U2, TRUE)}

NextSweep ==
  \/ \E c \in TwoConns : SecureConnection(c)
  \/ \E c \in TwoConns, env \in SweepEnvelopes : Budget(c) /\ SecureOnMessage(c, env)
  \/ SecureSweep
  \/ \E c \in TwoConns : Drop(c)
  \/ \E c \in TwoConns : SecureClose(c)
  \/ Tick({0, SESSION_TTL, SESSION_TTL + SweepInterval})
  \/ Return

SpecSweep == InitOf({"secure"}) /\ [][NextSweep]_vars

(***************************************************************************)
(* SpecRate: one identity against the rate-limit gate, and envelopes of an  *)
(* unhandled type in all five relays.                                      *)
(***************************************************************************)
GetTurn == Env("get-turn")
\* An envelope without a type.
NoType == Env("")

\* The window of the limiter is 5000 ms: the instant on its edge and the one
\* after it.

RateEnvelopes == {Hello(U1), ResponseChat(U1, U2, TRUE), GetTurn, Unknown, NoType}

NextRate ==
  \/ Accept(TwoConns)
  \/ \E c \in TwoConns, env \in RateEnvelopes :
       \/ MetricsOnMessage(c, env)
       \/ StableOnMessage(c, env)
       \/ UpdatedOnMessage(c, env)
       \/ LegacyOnMessage(c, env)
       \/ SecureOnMessage(c, env)
  \/ Dropped(TwoConns)
  \/ Closed(TwoConns)
  \/ Tick({0, 5000, 5001})
  \/ Return

SpecRate == InitOf(Variants) /\ [][NextRate]_vars

(***************************************************************************)
(* SpecChat: chat requests and their answers, all five relays.             *)
(***************************************************************************)
RequestChat(a, b) == [Env("request-chat") EXCEPT !.fromId = a, !.toId = b]

ChatEnvelopes ==
  {Hello(u) : u \in Ids}
  \cup {RequestChat(a, b) : a \in Ids, b \in Ids}
  \cup {ResponseChat(a, b, accept) : a \in Ids, b \in Ids, accept \in BOOLEAN}

NextChat ==
  \/ Accept(TwoConns)
  \/ Receive(TwoConns, ChatEnvelopes)
  \/ Dropped(TwoConns)
  \/ Closed(TwoConns)
  \/ Return

SpecChat == InitOf(Variants) /\ [][NextChat]_vars

(***************************************************************************)
(* SpecRelay: traffic inside a session between U1 and U2, with a bystander *)
(* U3, all five relays.                                                    *)
(***************************************************************************)
\* "S-0": a session id no relay has issued.
AbsentSession == <<83, 45, 48>>

\* A message as a client of any of the relays writes it: with an id of its own,
\* which only the secure relay reads.
ClientMessage(sid, from, selfDestruct) ==
  [Message(sid, from, selfDestruct) EXCEPT !.id = ClientMsgId]

RelayEnvelopes ==
  LET sids == DOMAIN sessions \cup {AbsentSession}
  IN {Hello(u) : u \in {U1, U2, U3}}
     \cup {ResponseChat(U1, U2, TRUE)}
     \cup {ClientMessage(sid, U1, SelfDestruct) : sid \in sids}
     \cup {ClientMessage(sid, U3, 0) : sid \in sids}
     \cup {EndSession(sid) : sid \in sids}

NextRelay ==
  \/ Accept(TwoConns)
  \/ Receive(TwoConns, RelayEnvelopes)
  \/ Dropped(TwoConns)
  \/ Closed(TwoConns)
  \/ Return

SpecRelay == InitOf(Variants) /\ [][NextRelay]_vars

(***************************************************************************)
(* SpecGroups: groups in the two relays that have them.                    *)
(***************************************************************************)
\* "G-1": a group id chosen by a client.
ClientGroupId == <<71, 45, 49>>

\* A group envelope; each relay reads the fields it knows (groupId and owner
\* or userId in the stable relay, groupId and fromId in the updated one).
GroupEnvelope(type, g, u) ==
  [Env(type) EXCEPT !.groupId = g, !.fromId = u, !.userId = u, !.owner = u,
                    !.text = SomeText]

GroupEnvelopes ==
  {Hello(u) : u \in Ids}
  \cup {GroupEnvelope(type, g, u) :
          type \in {"create-group", "group-join-request", "group-approve", "join-group",
                    "group-message"},
          g \in DOMAIN groups \cup {ClientGroupId},
          u \in Ids}

NextGroups ==
  \/ \E c \in TwoConns : RelayConnection(c)
  \/ \E c \in TwoConns, env \in GroupEnvelopes :
       StableOnMessage(c, env) \/ UpdatedOnMessage(c, env)
  \/ \E c \in TwoConns : Drop(c)
  \/ \E c \in TwoConns : StableClose(c) \/ UpdatedClose(c)
  \/ Return

SpecGroups == InitOf({"stable", "updated"}) /\ [][NextGroups]_vars

(***************************************************************************)
(* Properties of the presence registry and the pairwise sessions (Spec).   *)
(***************************************************************************)
\* The step handled an envelope of this type.
Handled(ev, type) == ev.ev = "message" /\ ev.env.type = type

\* C1: the registry binds an id to the connection that sent the latest hello
\* for it: a step binds or rebinds an id only by handling a hello for that id,
\* and then to the connection that sent the hello, whatever the id was bound to
\* before; every other step leaves the bindings it keeps as they were.
C1_LastHelloWins ==
  [][\A u \in DOMAIN clients' :
       IF Handled(last', "hello") /\ last'.env.userId = u
       THEN clients'[u].ws = last'.conn
       ELSE u \in DOMAIN clients /\ clients'[u].ws = clients[u].ws]_vars

\* A hello has just rebound an id that another open connection had registered.
C1_Witness ==
  /\ Handled(last, "hello")
  /\ last.env.userId \in DOMAIN clients
  /\ clients[last.env.userId].ws = last.conn
  /\ \E c \in Conns \ {last.conn} :
       readyState[c] = "open" /\ currentUserId[c] = last.env.userId

\* C2: the close of a connection whose id the registry binds to another
\* connection leaves that binding, and the sessions of the id, as they are.
C2_SupersededCloseKeepsBinding ==
  [][last'.ev = "close" =>
       LET u == currentUserId[last'.conn]
       IN (u \in DOMAIN clients /\ clients[u].ws # last'.conn) =>
            /\ u \in DOMAIN clients'
            /\ clients'[u] = clients[u]
            /\ \A sid \in DOMAIN sessions :
                 u \in {sessions[sid].aId, sessions[sid].bId} =>
                   sid \in DOMAIN sessions']_vars

\* C3: in the relays that derive the session id from the two identities
\* (makeSessionId), an accepted response-chat addresses the same session entry
\* whichever way round the two ids come: makeSessionId gives one id for (a, b)
\* and (b, a), the chat-start of the acceptance names the entry that the
\* opposite direction names, and no pair of identities has two entries.
C3_SymmetricSessionId ==
  /\ \A a, b \in Ids \cup {BadId, Undef} : makeSessionId(a, b) = makeSessionId(b, a)
  /\ variant \in {"metrics", "secure"} =>
       /\ \A s1, s2 \in DOMAIN sessions :
            {sessions[s1].aId, sessions[s1].bId} = {sessions[s2].aId, sessions[s2].bId}
              => s1 = s2
       /\ Handled(last, "response-chat") =>
            \A i \in 1..Len(sent) :
              sent[i][2].type = "chat-start" =>
                /\ sent[i][2].sessionId = makeSessionId(last.env.toId, last.env.fromId)
                /\ sent[i][2].sessionId \in DOMAIN sessions

\* An acceptance from the larger id to the smaller one has reached both peers,
\* and the pair has one session entry.
C3_Witness ==
  /\ variant \in {"metrics", "secure"}
  /\ Handled(last, "response-chat")
  /\ last.env.fromId = U2 /\ last.env.toId = U1
  /\ Cardinality(Receivers(sent, "chat-start")) = 2
  /\ Cardinality(DOMAIN sessions) = 1

(***************************************************************************)
(* Properties of session expiry (SpecSweep).                               *)
(***************************************************************************)
\* The sends of a step that went to the socket an id is registered with.
SendsTo(out, u) ==
  {i \in 1..Len(out) : u \in DOMAIN clients /\ out[i][1] = clients[u].ws}

Reachable(u) == u \in DOMAIN clients /\ readyState[clients[u].ws] = "open"

\* C4: a sweep removes every session older than the TTL and tells each of its
\* participants that can still be reached exactly once; it leaves the sessions
\* that are not older than the TTL as they are.
C4_SweepRemovesAndNotifies ==
  [][last'.ev = "sweep" =>
       \A sid \in DOMAIN sessions :
         IF now - sessions[sid].createdAt > SESSION_TTL
         THEN /\ sid \notin DOMAIN sessions'
              /\ \A u \in {sessions[sid].aId, sessions[sid].bId} :
                   Reachable(u) => Cardinality(SendsTo(sent', u)) = 1
         ELSE sid \in DOMAIN sessions' /\ sessions'[sid] = sessions[sid]]_vars

(***************************************************************************)
(* Properties of self-destructing messages (SpecTimers).                   *)
(***************************************************************************)
\* The step ran the callback of a self-destruct timer.
Fired(ev) ==
  ev.ev = "timeout"
  /\ ev.env.type \in {"metrics-delete", "broadcast-delete", "legacy-delete"}

\* C5: the callback of a self-destruct timer of delay T runs no earlier than T
\* after the message was relayed, and when the session of the message is gone
\* by then, it sends nothing to anyone.
C5_DeleteOnlyInLiveSession ==
  [][Fired(last') =>
       /\ now >= last'.env.timestamp + last'.env.selfDestruct
       /\ last'.env.sessionId \notin DOMAIN sessions => sent' = <<>>]_vars

\* C6: a self-destructing message relayed in a session reaches both
\* participants, and the delete-message that follows it reaches both and names
\* the id that the message envelope carried.
C6_DeleteNamesTheMessage ==
  [][/\ \A t \in timers' \ timers :
          /\ \A u \in {sessions[t.sessionId].aId, sessions[t.sessionId].bId} :
               Reachable(u) => clients[u].ws \in Receivers(sent', "message")
          /\ \A i \in 1..Len(sent') :
               sent'[i][2].type = "message" => sent'[i][2].id = t.id
     /\ (Fired(last') /\ last'.env.sessionId \in DOMAIN sessions) =>
          /\ \A u \in {sessions[last'.env.sessionId].aId,
                       sessions[last'.env.sessionId].bId} :
               Reachable(u) => clients[u].ws \in Receivers(sent', "delete-message")
          /\ \A i \in 1..Len(sent') : sent'[i][2].id = last'.env.id]_vars

(***************************************************************************)
(* Properties of the rate-limit gate and of unhandled types (SpecRate).    *)
(***************************************************************************)
\* The step handled an envelope that the secure relay passes through its gate:
\* one with a type other than hello, from a connection that has registered.
Gated(c) ==
  /\ variant = "secure"
  /\ last'.ev = "message" /\ last'.conn = c
  /\ last'.env.type \notin {"", "oversize", "bad-json", "hello"}
  /\ ~Falsy(currentUserId[c])

\* The window of an identity's bucket has elapsed.
Elapsed(u) == u \in DOMAIN rateLimits /\ now - rateLimits[u].time > 5000

\* The envelopes of an identity admitted so far in its current window.
AdmittedInWindow(u) ==
  IF u \in DOMAIN rateLimits /\ ~Elapsed(u) THEN rateLimits[u].count ELSE 0

\* The gate let the envelope through / turned it away.
Denied(c) == readyState'[c] = "closing"

\* C7: within one window the gate admits an envelope of an identity exactly
\* when fewer than 40 of its envelopes were admitted in the window before it:
\* 40 are admitted and the 41st is denied.
C7_ExactlyCapAdmitted ==
  [][\A c \in Conns :
       Gated(c) => (Denied(c) <=> AdmittedInWindow(currentUserId[c]) >= 40)]_vars

\* C8: an envelope that arrives when the identity's window is exhausted (more
\* than 40 admitted) terminates the sending connection and does nothing else:
\* nothing is sent, and registry, sessions, groups, buckets and timers stay.
C8_DeniedTerminatesOnly ==
  [][\A c \in Conns :
       (Gated(c) /\ AdmittedInWindow(currentUserId[c]) > 40) =>
         /\ readyState'[c] = "closing"
         /\ sent' = <<>>
         /\ UNCHANGED <<clients, sessions, groups, rateLimits, recentMessages,
                        timers>>]_vars

\* An accepted response-chat was denied: its connection is terminated, and the
\* session it asked for does not exist.
C8_Witness ==
  /\ variant = "secure"
  /\ Handled(last, "response-chat") /\ last.env.accept
  /\ readyState[last.conn] = "closing"
  /\ U1 \in DOMAIN rateLimits /\ rateLimits[U1].count > 40
  /\ sessions = EmptyMap
  /\ sent = <<>>

\* C9: the first envelope of an identity after its window has elapsed is
\* admitted and starts a new bucket (count 1, window starting now), whatever the
\* old count was and whichever connection the identity is on; in every window,
\* the first or a later one, the gate denies at the same count.
C9_WindowResets ==
  [][\A c \in Conns :
       Gated(c) =>
         LET u == currentUserId[c]
         IN /\ Elapsed(u) =>
                 /\ ~Denied(c)
                 /\ rateLimits'[u] = [count |-> 1, time |-> now]
            /\ Denied(c) <=> AdmittedInWindow(u) = 40 + 1]_vars

\* The identity's first connection is gone, the identity is back on a new
\* one, and there it has filled a later window as far as a first one goes.
C9_Witness ==
  /\ variant = "secure"
  /\ readyState["c1"] = "closed" /\ currentUserId["c2"] = U1
  /\ last.ev = "message" /\ last.conn = "c2"
  /\ U1 \in DOMAIN rateLimits
  /\ rateLimits[U1].time > 0 /\ rateLimits[U1].count = 40 + 1

\* C10 as stated: an envelope of an unhandled type causes no send and leaves
\* registry, sessions, groups, rate-limit buckets and pending timers unchanged.
C10_UnknownTypeChangesNothing ==
  [][Handled(last', "bogus") =>
       /\ sent' = <<>>
       /\ UNCHANGED <<clients, sessions, groups, rateLimits, timers>>]_vars

\* C10, amended: an envelope of an unhandled type, or without a type, causes
\* no send and leaves registry, sessions, groups and pending timers unchanged;
\* only the secure relay, for a registered sender and a type that is not
\* empty, charges the envelope to the sender's bucket, or terminates the
\* connection when the bucket is exhausted.
C10_UnknownTypeOnlyCharged ==
  [][\A c \in Conns :
       ((Handled(last', "bogus") \/ Handled(last', "")) /\ last'.conn = c) =>
         /\ sent' = <<>>
         /\ UNCHANGED <<clients, sessions, groups, timers, recentMessages,
                        currentUserId>>
         /\ IF Gated(c)
            THEN \/ /\ readyState'[c] = "closing"
                    /\ UNCHANGED rateLimits
                 \/ /\ UNCHANGED readyState
                    /\ DOMAIN rateLimits' = DOMAIN rateLimits \cup {currentUserId[c]}
                    /\ \A u \in DOMAIN rateLimits \ {currentUserId[c]} :
                         rateLimits'[u] = rateLimits[u]
            ELSE UNCHANGED <<rateLimits, readyState>>]_vars

\* An envelope of an unhandled type from a registered connection of the secure
\* relay, with a session in place, has been charged to the sender's bucket.
C10_Witness ==
  /\ variant = "secure"
  /\ Handled(last, "bogus")
  /\ currentUserId[last.conn] = U1
  /\ readyState[last.conn] = "open"
  /\ sessions # EmptyMap
  /\ U1 \in DOMAIN rateLimits /\ rateLimits[U1].count = 2

(***************************************************************************)
(* Properties of chat requests and their answers (SpecChat).               *)
(***************************************************************************)
\* The step handled an envelope of this type from a connection that has
\* registered, naming the connection's own id as fromId.
Own(c, type) ==
  /\ Handled(last', type) /\ last'.conn = c
  /\ ~Falsy(currentUserId[c])
  /\ last'.env.fromId = currentUserId[c]
  /\ currentUserId[c] \in DOMAIN clients /\ clients[currentUserId[c]].ws = c

\* C11: a request-chat for an id that is not registered is answered with
\* request-failed on the requesting connection, reaches no other connection,
\* and leaves registry, sessions, groups and timers as they are.
C11_UnknownTargetFails ==
  [][\A c \in Conns :
       (Own(c, "request-chat") /\ last'.env.toId \notin DOMAIN clients) =>
         /\ Len(sent') = 1
         /\ sent'[1][1] = c
         /\ sent'[1][2].type = "request-failed"
         /\ UNCHANGED <<clients, sessions, groups, timers, recentMessages>>]_vars

\* The step handled an envelope of this type from a connection that has
\* registered, and the rate-limit gate, where there is one, let it through.
Registered(c, type) ==
  /\ Handled(last', type) /\ last'.conn = c
  /\ ~Falsy(currentUserId[c])
  /\ ~Denied(c)

\* C12: an accepting response-chat between two registered identities with open
\* sockets opens one session of the two, and in the same step sends each of
\* them one chat-start that carries the id of that session and names the other
\* identity as peerId; the other sessions stay as they are.
C12_AcceptOpensOneSession ==
  [][\A c \in Conns :
       LET from == last'.env.fromId
           to == last'.env.toId
       IN (/\ Registered(c, "response-chat") /\ last'.env.accept
           /\ Reachable(from) /\ Reachable(to)) =>
            \E sid \in DOMAIN sessions' :
              /\ DOMAIN sessions' = DOMAIN sessions \cup {sid}
              /\ \A x \in DOMAIN sessions \ {sid} : sessions'[x] = sessions[x]
              /\ {sessions'[sid].aId, sessions'[sid].bId} = {from, to}
              /\ Len(sent') = 2
              /\ \A i \in 1..2 : /\ sent'[i][2].type = "chat-start"
                                 /\ sent'[i][2].sessionId = sid
              /\ \E i \in 1..2 : /\ sent'[i][1] = clients[from].ws
                                 /\ sent'[i][2].peerId = to
              /\ \E i \in 1..2 : /\ sent'[i][1] = clients[to].ws
                                 /\ sent'[i][2].peerId = from]_vars

\* An acceptance between two identities on two open sockets has just opened a
\* session and reached both sockets.
C12_Witness ==
  /\ Handled(last, "response-chat") /\ last.env.accept
  /\ last.env.fromId = U2 /\ last.env.toId = U1
  /\ Reachable(U1) /\ Reachable(U2)
  /\ clients[U1].ws # clients[U2].ws
  /\ Receivers(sent, "chat-start") = {clients[U1].ws, clients[U2].ws}
  /\ sessions # EmptyMap

\* C13: a rejecting response-chat tells the requester (toId), when it can be
\* reached, that the request was rejected, and leaves the sessions unchanged.
C13_RejectNotifiesRequester ==
  [][\A c \in Conns :
       (/\ Registered(c, "response-chat") /\ ~last'.env.accept
        /\ Reachable(last'.env.toId)) =>
         /\ UNCHANGED sessions
         /\ \E i \in 1..Len(sent') :
              /\ sent'[i][1] = clients[last'.env.toId].ws
              /\ sent'[i][2].type \in {"request-failed", "request-rejected"}]_vars

(***************************************************************************)
(* Properties of the traffic inside a session (SpecRelay).                 *)
(***************************************************************************)
\* The sockets of the participants of a session that can be reached.
Sockets(sid) ==
  {clients[u].ws : u \in {x \in {sessions[sid].aId, sessions[sid].bId} : Reachable(x)}}

\* C14: in the relays that handle end-session (all but the secure one), an
\* end-session for an existing session sends session-ended to both of its
\* participants, to nobody else, and removes that session only; an end-session
\* for a session that does not exist sends nothing and changes nothing.
C14_EndSessionNotifiesAndRemoves ==
  [][\A c \in Conns :
       (Registered(c, "end-session") /\ variant # "secure") =>
         LET sid == last'.env.sessionId
         IN IF sid \in DOMAIN sessions
            THEN /\ DOMAIN sessions' = DOMAIN sessions \ {sid}
                 /\ \A x \in DOMAIN sessions' : sessions'[x] = sessions[x]
                 /\ Receivers(sent', "session-ended") = Sockets(sid)
                 /\ \A i \in 1..Len(sent') : sent'[i][2].type = "session-ended"
                 /\ UNCHANGED <<clients, groups, timers>>
            ELSE /\ sent' = <<>>
                 /\ UNCHANGED <<readyState, clients, sessions, groups, rateLimits,
                                recentMessages, timers>>]_vars

\* An end-session has removed the session of U1 and U2 and told both, on their
\* two sockets.
C14_Witness ==
  /\ Handled(last, "end-session")
  /\ last.env.sessionId \notin DOMAIN sessions
  /\ Reachable(U1) /\ Reachable(U2)
  /\ Receivers(sent, "session-ended") = {clients[U1].ws, clients[U2].ws}
  /\ Cardinality(Receivers(sent, "session-ended")) = 2

\* The connection is registered as an identity that is not a participant of
\* the session, and is not the socket of a participant either.
Outsider(c, sid) ==
  /\ ~Falsy(currentUserId[c])
  /\ currentUserId[c] \notin {sessions[sid].aId, sessions[sid].bId}
  /\ c \notin Sockets(sid)

\* C15: an envelope from a connection registered as a third identity leaves a
\* session between two others in place and unchanged, and when it names that
\* session it causes no delivery: nothing reaches the participants, and
\* nothing of the session reaches the sender.
C15_OutsiderCannotTouchSession ==
  [][\A c \in Conns : \A sid \in DOMAIN sessions :
       (last'.ev = "message" /\ last'.conn = c /\ Outsider(c, sid)) =>
         /\ sid \in DOMAIN sessions' /\ sessions'[sid] = sessions[sid]
         /\ last'.env.sessionId = sid => sent' = <<>>]_vars

\* C16: an envelope of a type other than hello from a connection that has not
\* registered causes no send and leaves registry, sessions and groups as they
\* are.
C16_UnregisteredIsRejected ==
  [][\A c \in Conns :
       (/\ last'.ev = "message" /\ last'.conn = c
        /\ last'.env.type # "hello"
        /\ Falsy(currentUserId[c])) =>
         /\ sent' = <<>>
         /\ UNCHANGED <<clients, sessions, groups>>]_vars

(***************************************************************************)
(* Properties of groups (SpecGroups).                                      *)
(***************************************************************************)
\* C17: a group-approve for an existing group adds the user to the members
\* and sends the user group-joined when the connection that sent it is
\* registered as the owner of the group; from any other connection it leaves
\* the groups as they are.
C17_ApproveIsOwnerOnly ==
  [][\A c \in Conns :
       (/\ Handled(last', "group-approve") /\ last'.conn = c
        /\ last'.env.groupId \in DOMAIN groups) =>
         LET g == last'.env.groupId
             u == last'.env.userId
         IN IF currentUserId[c] = groups[g].owner
            THEN /\ groups'[g].members = Append(groups[g].members, u)
                 /\ Reachable(u) => clients[u].ws \in Receivers(sent', "group-joined")
            ELSE UNCHANGED groups]_vars

\* C18: the owner of every group is one of its members, and a step keeps
\* every group and every member that a group had before it.
C18_OwnerIsMemberAndMembersStay ==
  [][/\ \A g \in DOMAIN groups' : Includes(groups'[g].members, groups'[g].owner)
     /\ \A g \in DOMAIN groups :
          /\ g \in DOMAIN groups'
          /\ \A i \in 1..Len(groups[g].members) :
               Includes(groups'[g].members, groups[g].members[i])]_vars

(***************************************************************************)
(* More properties of the traffic inside a session (SpecRelay).            *)
(***************************************************************************)
\* C19: a message from a participant of an existing session reaches both
\* participants of the session, the sender included; a message that names a
\* session that does not exist causes no send, arms no timer and leaves
\* registry, sessions and groups as they are.
C19_MessageReachesBothOrNobody ==
  [][\A c \in Conns :
       (Own(c, "message") /\ ~Denied(c)) =>
         LET sid == last'.env.sessionId
         IN IF sid \in DOMAIN sessions
            THEN currentUserId[c] \in {sessions[sid].aId, sessions[sid].bId} =>
                   Sockets(sid) \subseteq Receivers(sent', "message")
            ELSE /\ sent' = <<>>
                 /\ UNCHANGED <<clients, sessions, groups, timers,
                                recentMessages>>]_vars

(***************************************************************************)
(* Close handlers and the sessions of the identity that went away (Spec).  *)
(***************************************************************************)
\* C20: when a close handler removes the registry entry of an identity,
\* every session that identity takes part in is removed in the same step,
\* the remaining participant of each is sent session-ended if it is
\* reachable, and afterwards no session references the identity.
C20_CloseRemovesSessionsOfIdentity ==
  [][last'.ev = "close" =>
       \A x \in DOMAIN clients \ DOMAIN clients' :
         /\ \A sid \in DOMAIN sessions' :
              x \notin {sessions'[sid].aId, sessions'[sid].bId}
         /\ \A sid \in DOMAIN sessions :
              x \in {sessions[sid].aId, sessions[sid].bId} =>
                \A y \in {sessions[sid].aId, sessions[sid].bId} \ {x} :
                  Reachable(y) =>
                    clients[y].ws \in Receivers(sent', "session-ended")]_vars

(***************************************************************************)
(* SpecBeat: the liveness monitor of the secure relay.                     *)
(***************************************************************************)

NextBeat ==
  \/ \E c \in Conns : SecureConnection(c)
  \/ \E c \in Conns, env \in {Hello(U1)} : Budget(c) /\ SecureOnMessage(c, env)
  \/ \E c \in Conns : SecurePong(c)
  \/ SecureHeartbeat
  \/ \E c \in Conns : Drop(c)
  \/ \E c \in Conns : SecureClose(c)
  \/ Tick({HeartbeatInterval, 2 * HeartbeatInterval, 3 * HeartbeatInterval})
  \/ Return

SpecBeat == InitOf({"secure"}) /\ [][NextBeat]_vars

\* C21: a heartbeat terminates every open connection that has not answered
\* the probe before it, and marks every other open connection unanswered and
\* probes it; only the heartbeat marks a connection unanswered and only a pong
\* (or its acceptance) marks it answered, so a connection that answers every
\* probe is never terminated by the monitor and one that stops answering is
\* terminated by the second heartbeat after its last pong.
C21_HeartbeatTerminatesSilent ==
  [][\A c \in Conns :
       /\ (last'.ev = "heartbeat" /\ readyState[c] = "open") =>
            IF isAlive[c]
            THEN /\ readyState'[c] = "open"
                 /\ ~isAlive'[c]
                 /\ Cardinality({i \in 1..Len(sent') :
                                   sent'[i] = <<c, Env("ping")>>}) = 1
            ELSE /\ readyState'[c] = "closing"
                 /\ c \notin Receivers(sent', "ping")
       /\ (isAlive[c] /\ ~isAlive'[c]) => last'.ev = "heartbeat"
       /\ (~isAlive[c] /\ isAlive'[c]) =>
            last'.ev \in {"pong", "connection"} /\ last'.conn = c
       /\ (readyState[c] = "open" /\ readyState'[c] # "open") =>
            \/ last'.ev = "drop" /\ last'.conn = c
            \/ last'.ev = "heartbeat" /\ ~isAlive[c]
            \/ Denied(c)]_vars

\* A heartbeat has just terminated the silent c1 and probed c2, which answered
\* the probe before.
C21_Witness ==
  /\ last.ev = "heartbeat"
  /\ now = 2 * HeartbeatInterval
  /\ readyState["c1"] = "closing" /\ readyState["c2"] = "open"
  /\ sent = << <<"c2", Env("ping")>> >>

(***************************************************************************)
(* SpecTtl: self-destruct delays at and beyond the hard maximum.           *)
(***************************************************************************)
\* The largest delay the metrics relay arms a delete timer with.
MaxTtl == 5 * 60 * 1000

TtlEnvelopes ==
  {Hello(u) : u \in Ids}
  \cup {ResponseChat(U1, U2, TRUE)}
  \cup {Message(sid, U1, ttl) : sid \in DOMAIN sessions, ttl \in {MaxTtl, MaxTtl + 1}}

NextTtl ==
  \/ \E c \in TwoConns : MetricsConnection(c) \/ RelayConnection(c)
  \/ \E c \in TwoConns, env \in TtlEnvelopes :
       \/ MetricsOnMessage(c, env)
       \/ StableOnMessage(c, env)
       \/ UpdatedOnMessage(c, env)
       \/ LegacyOnMessage(c, env)
  \/ \E t \in timers : MetricsTimeout(t) \/ UpdatedTimeout(t) \/ LegacyTimeout(t)
  \/ \E c \in TwoConns : Drop(c)
  \/ \E c \in TwoConns : \/ MetricsClose(c) \/ StableClose(c) \/ UpdatedClose(c)
                         \/ LegacyClose(c)
  \/ Tick({0, MaxTtl, MaxTtl + 1})
  \/ Return

SpecTtl == InitOf(Variants \ {"secure"}) /\ [][NextTtl]_vars

\* C22: every pending delete timer was armed with a delay of at most five
\* minutes: a longer self-destruct delay is rejected or clamped.
C22_DeleteDelayWithinMaximum ==
  \A t \in timers :
    t.kind \in {"metrics-delete", "broadcast-delete", "legacy-delete"} =>
      t.delay <= MaxTtl

(***************************************************************************)
(* Shape of the session map (Spec).                                        *)
(***************************************************************************)
\* C23: every stored session references exactly two identities: both
\* participant ids are defined and they differ.
C23_SessionHasTwoIdentities ==
  \A sid \in DOMAIN sessions :
    /\ ~Falsy(sessions[sid].aId)
    /\ ~Falsy(sessions[sid].bId)
    /\ sessions[sid].aId # sessions[sid].bId

(***************************************************************************)
(* SpecFan: group fan-out in the updated relay, three identities.          *)
(***************************************************************************)

\* One group is enough: a client creates it while there is none.
FanEnvelopes ==
  (IF groups = EmptyMap THEN {GroupEnvelope("create-group", Undef, U1)} ELSE {})
  \cup {GroupEnvelope(type, g, u) :
          type \in {"join-group", "group-message"},
          g \in DOMAIN groups,
          u \in {U1, U2, U3}}

\* Any connection registers any identity; the relay takes a group envelope
\* from any open connection alike, so the first one sends them all.
NextFan ==
  \/ \E c \in Conns : RelayConnection(c)
  \/ \E c \in Conns, u \in {U1, U2, U3} : UpdatedOnMessage(c, Hello(u))
  \/ \E env \in FanEnvelopes : UpdatedOnMessage(ConnSeq[1], env)
  \/ \E c \in Conns : Drop(c)
  \/ \E c \in Conns : UpdatedClose(c)
  \/ Return

SpecFan == InitOf({"updated"}) /\ [][NextFan]_vars

\* The members of the group, the sender aside, whose socket can be written.
Audience(g, from) ==
  {u \in {groups[g].members[i] : i \in 1..Len(groups[g].members)} \ {from} :
     Reachable(u)}

\* C24: no identity is twice in a group's member list, and a group-message to
\* an existing group is sent once for each reachable member other than the
\* sender, to that member's socket, and to nobody else; it changes no group.
C24_GroupMessageOncePerMember ==
  [][/\ \A g \in DOMAIN groups : \A i, j \in 1..Len(groups[g].members) :
          groups[g].members[i] = groups[g].members[j] => i = j
     /\ (Handled(last', "group-message") /\ last'.env.groupId \in DOMAIN groups) =>
          LET audience == Audience(last'.env.groupId, last'.env.fromId)
          IN /\ \A i \in 1..Len(sent') : sent'[i][2].type = "group-message"
             /\ \A d \in Conns :
                  Cardinality({i \in 1..Len(sent') : sent'[i][1] = d})
                    = Cardinality({u \in audience : clients[u].ws = d})
             /\ UNCHANGED groups]_vars

\* A group-message has just gone to the two other members of a group of three,
\* each on its own socket.
C24_Witness ==
  /\ Handled(last, "group-message")
  /\ last.env.groupId \in DOMAIN groups
  /\ Len(groups[last.env.groupId].members) = 3
  /\ Len(sent) = 2
  /\ sent[1][1] # sent[2][1]

(***************************************************************************)
(* The registry after a close (Spec).                                      *)
(***************************************************************************)
\* C25: once the close event of a connection has been handled, no registry
\* entry is bound to that connection.
C25_ClosedConnectionUnbound ==
  \A c \in Conns :
    readyState[c] = "closed" => \A u \in DOMAIN clients : clients[u].ws # c

(***************************************************************************)
(* SpecDedupe: the duplicate filter of the secure relay.                   *)
(***************************************************************************)

\* Messages of SC-AAAA-AAAA with the id "m1" and without an id.
DedupeEnvelopes ==
  {Hello(u) : u \in Ids}
  \cup {ResponseChat(U1, U2, TRUE)}
  \cup {ClientMessage(sid, U1, 0) : sid \in DOMAIN sessions}
  \cup {Message(sid, U1, 0) : sid \in DOMAIN sessions}

NextDedupe ==
  \/ \E c \in TwoConns : SecureConnection(c)
  \/ \E c \in TwoConns, env \in DedupeEnvelopes : Budget(c) /\ SecureOnMessage(c, env)
  \/ \E t \in timers : SecureForget(t)
  \/ \E c \in TwoConns : Drop(c)
  \/ \E c \in TwoConns : SecureClose(c)
  \/ Tick({0, DedupeDelay - 1, DedupeDelay})
  \/ Return

SpecDedupe == InitOf({"secure"}) /\ [][NextDedupe]_vars

\* C26: every id the filter holds has a pending timer that forgets it 60 s
\* after the envelope that carried it was forwarded; a message of a
\* participant for an existing session whose other participant can be reached
\* is forwarded to that participant, as it came, unless the filter holds its
\* id, and an envelope without an id is forwarded whatever the filter holds.
C26_ForwardUnlessSameIdLately ==
  [][/\ \A id \in recentMessages :
          \E t \in timers : t.kind = "dedupe" /\ t.id = id /\ t.delay = DedupeDelay
     /\ \A c \in Conns :
          LET env == last'.env
              sid == env.sessionId
              me == currentUserId[c]
          IN (/\ variant = "secure" /\ Registered(c, "message")
              /\ sid \in DOMAIN sessions
              /\ me \in {sessions[sid].aId, sessions[sid].bId}
              /\ sessions[sid].aId # sessions[sid].bId) =>
               LET target == IF me = sessions[sid].aId THEN sessions[sid].bId
                             ELSE sessions[sid].aId
               IN Reachable(target) =>
                    IF env.id = Undef \/ env.id \notin recentMessages
                    THEN sent' = << <<clients[target].ws, env>> >>
                    ELSE sent' = <<>>]_vars

(***************************************************************************)
(* SpecPairs: session ids of client-supplied ids that contain "#", in the  *)
(* two relays that derive the session id from the pair.                    *)
(***************************************************************************)
\* The ids "A", "B#C", "A#B" and "C".
PairIds == {<<65>>, <<66, 35, 67>>, <<65, 35, 66>>, <<67>>}

\* A accepts B#C, A#B accepts C, and the opposite directions.
PairEnvelopes ==
  {Hello(<<65>>), Hello(<<65, 35, 66>>)}
  \cup {ResponseChat(<<65>>, <<66, 35, 67>>, TRUE),
        ResponseChat(<<66, 35, 67>>, <<65>>, TRUE),
        ResponseChat(<<65, 35, 66>>, <<67>>, TRUE),
        ResponseChat(<<67>>, <<65, 35, 66>>, TRUE)}

NextPairs ==
  \/ \E c \in TwoConns : MetricsConnection(c) \/ SecureConnection(c)
  \/ \E c \in TwoConns, env \in PairEnvelopes :
       \/ MetricsOnMessage(c, env)
       \/ Budget(c) /\ SecureOnMessage(c, env)
  \/ \E c \in TwoConns : Drop(c)
  \/ \E c \in TwoConns : MetricsClose(c) \/ SecureClose(c)
  \/ Return

SpecPairs == InitOf({"metrics", "secure"}) /\ [][NextPairs]_vars

\* C27: two different unordered pairs of ids never derive the same session
\* id, so an accepted response-chat leaves the session of every other pair as
\* it is: the entry it writes is new or was the entry of the same pair.
C27_SessionIdInjectiveOnPairs ==
  [][/\ \A a, b, c, d \in PairIds :
          makeSessionId(a, b) = makeSessionId(c, d) => {a, b} = {c, d}
     /\ \A sid \in DOMAIN sessions :
          (Handled(last', "response-chat") /\ sid \in DOMAIN sessions') =>
            {sessions'[sid].aId, sessions'[sid].bId}
              = {sessions[sid].aId, sessions[sid].bId}]_vars

====
